---- MODULE Spec2Model ----
(***************************************************************************)
(* Model of the documentation page route (app/docs/[[...slug]]/page.tsx)   *)
(* and of the previous/Home/next footer (app/docs/DocFooter.tsx).          *)
(*                                                                         *)
(* JavaScript values are encoded so that TLC can compare them:             *)
(*   - a string that is matched character by character (a URL) is a        *)
(*     sequence of one-character strings, "/a" is <<"/", "a">>;            *)
(*   - an optional object (previous, next, page) is a sequence of length   *)
(*     0 (undefined) or 1 (the object);                                    *)
(*   - an optional string field holds Undefined or Null when absent.       *)
(***************************************************************************)
EXTENDS Integers, Sequences, FiniteSets, TLC

VARIABLES
    footerList,   \* what useFooterItems() returns to DocFooter
    pathname,     \* what usePathname() returns to DocFooter
    memo,         \* the useMemo cell of DocFooter: dependencies and value
    footer,       \* the committed output of the last DocFooter render
    remembered,   \* observer: inputs and result of one earlier evaluation
    pageTree,     \* the page tree behind source (built once, then read)
    staticParams, \* what generateStaticParams() returned at build time
    requests      \* the Page requests, one record per request

vars == <<footerList, pathname, memo, footer, remembered,
          pageTree, staticParams, requests>>

footerVars == <<footerList, pathname, memo, footer, remembered>>
pageVars == <<pageTree, staticParams, requests>>

Undefined == "<undefined>"
Null == "<null>"

\* ------------------------------------------------------------------ bounds

\* longest nav list handed to the footer
MaxNav == 3
\* number of concurrent Page requests
MaxReq == 2

\* ------------------------------------------------------------ nav entries

UrlA == <<"/", "a">>
UrlB == <<"/", "b">>
UrlC == <<"/", "c">>
UrlAB == <<"/", "a", "/", "b">>
UrlHome == <<"/">>

\* The items a nav list is made of. Two items share the url /a, one item
\* has no description, one an empty one and one a null one.
ItemA == [url |-> UrlA, name |-> "A", description |-> "About a"]
ItemAlias == [url |-> UrlA, name |-> "A alias", description |-> Undefined]
ItemB == [url |-> UrlB, name |-> "B", description |-> ""]
ItemC == [url |-> UrlC, name |-> "C", description |-> Null]
Items == {ItemA, ItemAlias, ItemB, ItemC}

Paths == {UrlA, UrlB, UrlC, UrlAB}

\* the nav lists: every entry of a list is an item of its own
NavLists ==
    {list \in UNION {[1..n -> Items] : n \in 0..MaxNav} :
        \A i, j \in DOMAIN list : list[i] = list[j] => i = j}

\* --------------------------------------------------------------- isActive

\* String.prototype.startsWith over character sequences
StartsWith(s, prefix) ==
    /\ Len(prefix) <= Len(s)
    /\ SubSeq(s, 1, Len(prefix)) = prefix

\* isActive(url, pathname, nested): the urls are equal, or nested matching
\* is requested and the pathname lies below the url
isActive(url, path, nested) ==
    \/ url = path
    \/ nested /\ StartsWith(path, url \o <<"/">>)

\* ------------------------------------------------------------- DocFooter

\* the predicate DocFooter hands to findIndex
ItemIsActiveNested(item, path) == isActive(item.url, path, TRUE)
ItemIsActive(item, path) == isActive(item.url, path, FALSE)

\* Array.prototype.findIndex from position k (0-based): the index of the
\* first entry the predicate accepts, or -1, together with the number of
\* entries the predicate was called on.
RECURSIVE FindIndexFrom(_, _, _)
FindIndexFrom(list, path, k) ==
    IF k >= Len(list) THEN [idx |-> -1, examined |-> k]
    ELSE IF ItemIsActive(list[k + 1], path) THEN [idx |-> k, examined |-> k + 1]
    ELSE FindIndexFrom(list, path, k + 1)

RECURSIVE FindLastIndexFrom(_, _, _)
FindLastIndexFrom(list, path, k) ==
    IF k < 0 THEN [idx |-> -1, examined |-> Len(list)]
    ELSE IF ItemIsActive(list[k + 1], path)
         THEN [idx |-> k, examined |-> Len(list) - k]
    ELSE FindLastIndexFrom(list, path, k - 1)

\* a scan that tests with some() first and then searches again
FindIndexAfterSome(list, path) ==
    LET found == FindIndexFrom(list, path, 0)
    IN [idx |-> found.idx, examined |-> 2 * found.examined]
FindIndexLast(list, path) == FindLastIndexFrom(list, path, Len(list) - 1)
FindIndex(list, path) == FindIndexFrom(list, path, 0)

\* footerList[j] of a JavaScript array: undefined outside 0..length-1
AtWrap(list, j) ==
    IF Len(list) = 0 THEN <<>> ELSE <<list[((j + Len(list)) % Len(list)) + 1]>>
\* an access that keeps the index inside the array
AtClamped(list, j) ==
    IF Len(list) = 0 THEN <<>>
    ELSE IF j < 0 THEN <<list[1]>>
    ELSE IF j >= Len(list) THEN <<list[Len(list)]>>
    ELSE <<list[j + 1]>>
At(list, j) ==
    IF j >= 0 /\ j < Len(list) THEN <<list[j + 1]>> ELSE <<>>

\* the callback of useMemo: { previous, next } around the first active entry
NeighborsSwapped(list, path) ==
    LET found == FindIndex(list, path) IN
    IF found.idx = -1
    THEN [previous |-> <<>>, next |-> <<>>, examined |-> found.examined]
    ELSE [previous |-> At(list, found.idx + 1),
          next |-> At(list, found.idx - 1),
          examined |-> found.examined]
NeighborsNoGuard(list, path) ==
    LET found == FindIndex(list, path) IN
    [previous |-> At(list, found.idx - 1),
     next |-> At(list, found.idx + 1),
     examined |-> found.examined]
\* a callback that takes footerList[idx + 2] as next
NeighborsNextSkipping(list, path) ==
    LET found == FindIndex(list, path) IN
    IF found.idx = -1
    THEN [previous |-> <<>>, next |-> <<>>, examined |-> found.examined]
    ELSE [previous |-> At(list, found.idx - 1),
          next |-> At(list, found.idx + 2),
          examined |-> found.examined]
Neighbors(list, path) ==
    LET found == FindIndex(list, path) IN
    IF found.idx = -1
    THEN [previous |-> <<>>, next |-> <<>>, examined |-> found.examined]
    ELSE [previous |-> At(list, found.idx - 1),
          next |-> At(list, found.idx + 1),
          examined |-> found.examined]

\* useMemo's dependency comparison for [footerList, pathname]
DepsChangedListOnly(m, list, path) == ~m.set \/ m.deps[1] # list
DepsChangedPathOnly(m, list, path) == ~m.set \/ m.deps[2] # path
DepsChanged(m, list, path) == ~m.set \/ m.deps # <<list, path>>

UseMemo(m, list, path) ==
    IF DepsChanged(m, list, path)
    THEN [set |-> TRUE, deps |-> <<list, path>>, val |-> Neighbors(list, path)]
    ELSE m

\* FooterItemLink({ item, index })
FooterItemLinkOrDefault(item, index) ==
    [href |-> item.url,
     name |-> item.name,
     text |-> IF item.description \in {Undefined, Null, ""}
              THEN (IF index = 0 THEN "Previous page" ELSE "Next page")
              ELSE item.description,
     index |-> index]
FooterItemLink(item, index) ==
    [href |-> item.url,
     name |-> item.name,
     text |-> IF item.description \in {Undefined, Null}
              THEN (IF index = 0 THEN "Previous page" ELSE "Next page")
              ELSE item.description,
     index |-> index]

HomeLink == [href |-> UrlHome, name |-> "Home", text |-> "", index |-> -1]

\* the children of the grid that DocFooter returns, in document order
FooterLinksNoHome(previous, next) ==
    (IF previous # <<>> THEN <<FooterItemLink(previous[1], 0)>> ELSE <<>>)
    \o (IF next # <<>> THEN <<FooterItemLink(next[1], 1)>> ELSE <<>>)
FooterLinks(previous, next) ==
    (IF previous # <<>> THEN <<FooterItemLink(previous[1], 0)>> ELSE <<>>)
    \o <<HomeLink>>
    \o (IF next # <<>> THEN <<FooterItemLink(next[1], 1)>> ELSE <<>>)

ColumnClassEither(previous, next) ==
    IF previous # <<>> \/ next # <<>> THEN "md:grid-cols-3" ELSE "md:grid-cols-2"
ColumnClass(previous, next) ==
    IF previous # <<>> /\ next # <<>> THEN "md:grid-cols-3" ELSE "md:grid-cols-2"

\* a DocFooter that searches with footerList.reverse(), which reverses the
\* array in place
DocFooterReversing(list, path) ==
    LET m == UseMemo(memo, list, path) IN
    /\ footerList' = [i \in DOMAIN list |-> list[Len(list) + 1 - i]]
    /\ pathname' = path
    /\ memo' = m
    /\ footer' = [mounted |-> TRUE,
                  previous |-> m.val.previous,
                  next |-> m.val.next,
                  examined |-> m.val.examined,
                  columnClass |-> ColumnClass(m.val.previous, m.val.next),
                  links |-> FooterLinks(m.val.previous, m.val.next)]

\* one call of DocFooter with the hook values list and path
DocFooter(list, path) ==
    LET m == UseMemo(memo, list, path) IN
    /\ footerList' = list
    /\ pathname' = path
    /\ memo' = m
    /\ footer' = [mounted |-> TRUE,
                  previous |-> m.val.previous,
                  next |-> m.val.next,
                  examined |-> m.val.examined,
                  columnClass |-> ColumnClass(m.val.previous, m.val.next),
                  links |-> FooterLinks(m.val.previous, m.val.next)]

NoMemo == [set |-> FALSE, deps |-> <<<<>>, <<>>>>,
           val |-> [previous |-> <<>>, next |-> <<>>, examined |-> 0]]
NoFooter == [mounted |-> FALSE, previous |-> <<>>, next |-> <<>>, examined |-> 0,
             columnClass |-> "", links |-> <<>>]
NoRemembered == [set |-> FALSE, list |-> <<>>, path |-> <<>>,
                 previous |-> <<>>, next |-> <<>>, others |-> FALSE]

\* observer: note that an evaluation with other inputs than the remembered
\* ones took place
Observe(list, path) ==
    remembered' =
        IF remembered.set /\ <<list, path>> # <<remembered.list, remembered.path>>
        THEN [remembered EXCEPT !.others = TRUE]
        ELSE remembered

\* the pathname changes (client navigation) and the footer renders again
Navigate ==
    /\ \E p \in Paths : p # pathname /\ DocFooter(footerList, p) /\ Observe(footerList, p)
    /\ UNCHANGED pageVars

\* the navigation data gains an entry at the end and the footer renders again
FooterItemsAdd ==
    /\ Len(footerList) < MaxNav
    /\ \E item \in Items :
          /\ \A i \in DOMAIN footerList : footerList[i] # item
          /\ DocFooter(Append(footerList, item), pathname)
          /\ Observe(Append(footerList, item), pathname)
    /\ UNCHANGED pageVars

\* the navigation data loses an entry and the footer renders again
FooterItemsRemove ==
    /\ \E i \in 1..Len(footerList) :
          LET list == SubSeq(footerList, 1, i - 1)
                          \o SubSeq(footerList, i + 1, Len(footerList))
          IN DocFooter(list, pathname) /\ Observe(list, pathname)
    /\ UNCHANGED pageVars

\* the footer renders with unchanged hook values (first mount, parent render)
Rerender ==
    /\ DocFooter(footerList, pathname)
    /\ UNCHANGED <<remembered, pageVars>>

\* observer: keep the inputs and the result of the evaluation just shown
Remember ==
    /\ footer.mounted
    /\ remembered' = [set |-> TRUE, list |-> footerList, path |-> pathname,
                      previous |-> footer.previous, next |-> footer.next,
                      others |-> FALSE]
    /\ UNCHANGED <<footerList, pathname, memo, footer, pageVars>>

\* -------------------------------------------------------------- page tree

\* page.data of an inline page: the fields are attached to the page itself
Inline(body, title, description) ==
    [load |-> FALSE, body |-> body, toc |-> "toc", title |-> title,
     description |-> description]

\* page.data of a deferred page: only load() is attached
Deferred ==
    [load |-> TRUE, body |-> Undefined, toc |-> Undefined, title |-> Undefined,
     description |-> Undefined]

Page_(slugs, data) == [slugs |-> slugs, data |-> data]

\* a leaf: a path segment with a page and no children
Leaf(seg, slugs, data) ==
    [seg |-> seg, page |-> <<Page_(slugs, data)>>, children |-> <<>>]

\* the tree of the repository's sidebar: four categories without index page
JavaScriptCategory ==
    [seg |-> "javascript", page |-> <<>>, children |-> <<
       Leaf("js", <<"javascript", "js">>, Deferred),
       Leaf("adv-js", <<"javascript", "adv-js">>,
            Inline("mdx:adv-js", "Advanced JavaScript", Undefined)) >>]

\* the TypeScript category with its first item under another id
TypeScriptCategoryOtherId ==
    [seg |-> "typescript", page |-> <<>>, children |-> <<
       Leaf("typescript", <<"typescript", "typescript">>, Deferred),
       Leaf("adv-ts-patterns", <<"typescript", "adv-ts-patterns">>,
            Inline("mdx:adv-ts-patterns", "", "")),
       Leaf("system-design-decisions",
            <<"typescript", "system-design-decisions">>, Deferred) >>]
TypeScriptCategory ==
    [seg |-> "typescript", page |-> <<>>, children |-> <<
       Leaf("ts", <<"typescript", "ts">>, Deferred),
       Leaf("adv-ts-patterns", <<"typescript", "adv-ts-patterns">>,
            Inline("mdx:adv-ts-patterns", "", "")),
       Leaf("system-design-decisions",
            <<"typescript", "system-design-decisions">>, Deferred) >>]

ReactCategory ==
    [seg |-> "react", page |-> <<>>, children |-> <<
       Leaf("react", <<"react", "react">>, Deferred),
       Leaf("react-core-concepts", <<"react", "react-core-concepts">>,
            Inline(Undefined, "React core concepts", Undefined)) >>]

ReduxCategory ==
    [seg |-> "redux", page |-> <<>>, children |-> <<
       Leaf("redux", <<"redux", "redux">>, Deferred),
       Leaf("rtk-rq", <<"redux", "rtk-rq">>, Deferred) >>]

\* the sidebar with the React category moved to the front
SidebarTreeReactFirst ==
    [seg |-> "", page |-> <<>>,
     children |-> <<ReactCategory, JavaScriptCategory, TypeScriptCategory,
                    ReduxCategory>>]
SidebarTree ==
    [seg |-> "", page |-> <<>>,
     children |-> <<JavaScriptCategory, TypeScriptCategory, ReactCategory,
                    ReduxCategory>>]

\* a tree with a root index page and a category that has an index page
IndexTree ==
    [seg |-> "", page |-> <<Page_(<<>>, Inline("mdx:index", "Docs", "Start"))>>,
     children |-> <<
      [seg |-> "typescript",
       page |-> <<Page_(<<"typescript">>, Deferred)>>,
       children |-> << Leaf("ts", <<"typescript", "ts">>, Deferred) >>] >>]

Trees == {SidebarTree, IndexTree}

\* source.getPage(slugs): walk the tree from the root, one segment per level
RECURSIVE Walk(_, _)
Walk(node, slugs) ==
    IF slugs = <<>> THEN node.page
    ELSE LET hits == {i \in DOMAIN node.children :
                         node.children[i].seg = Head(slugs)}
         IN IF hits = {} THEN <<>>
            ELSE Walk(node.children[CHOOSE i \in hits : \A j \in hits : i <= j],
                      Tail(slugs))

getPage(tree, slugs) == Walk(tree, slugs)

\* the nodes of a subtree in depth-first order, the node itself first
RECURSIVE NodesOf(_)
RECURSIVE NodesOfAll(_)
NodesOf(node) == <<node>> \o NodesOfAll(node.children)
NodesOfAll(nodes) ==
    IF nodes = <<>> THEN <<>> ELSE NodesOf(Head(nodes)) \o NodesOfAll(Tail(nodes))

\* the pages of a sequence of nodes, in order
RECURSIVE PagesOf(_)
PagesOf(nodes) ==
    IF nodes = <<>> THEN <<>> ELSE Head(nodes).page \o PagesOf(Tail(nodes))

getPages(tree) == PagesOf(NodesOf(tree))

\* source.generateParams(): one { slug } per page of the tree
generateParams(tree) ==
    LET pages == getPages(tree)
    IN [i \in DOMAIN pages |-> [slug |-> <<pages[i].slugs>>]]

\* ------------------------------------------------------------------- Page

\* JavaScript truthiness of an optional string
Truthy(v) == v \notin {Undefined, Null, ""}

\* what a node's load() promise can settle to: a payload with a body, a
\* payload without one, nothing at all, or a rejection
LoadResults ==
    { [kind |-> "object", body |-> "mdx:loaded", toc |-> "toc",
       title |-> "Loaded title", description |-> "Loaded description"],
      [kind |-> "object", body |-> "mdx:loaded", toc |-> Undefined,
       title |-> Undefined, description |-> ""],
      [kind |-> "object", body |-> Undefined, toc |-> "toc",
       title |-> "Loaded title", description |-> Undefined],
      [kind |-> "undefined", body |-> Undefined, toc |-> Undefined,
       title |-> Undefined, description |-> Undefined],
      [kind |-> "null", body |-> Undefined, toc |-> Undefined,
       title |-> Undefined, description |-> Undefined],
      [kind |-> "rejected", body |-> Undefined, toc |-> Undefined,
       title |-> Undefined, description |-> Undefined] }

NoLoadResult ==
    [kind |-> "none", body |-> Undefined, toc |-> Undefined,
     title |-> Undefined, description |-> Undefined]

\* `data` itself, taken as `loaded` when the node declares no load()
DataAsLoaded(data) ==
    [kind |-> "object", body |-> data.body, toc |-> data.toc,
     title |-> data.title, description |-> data.description]

NoRender ==
    [toc |-> Undefined, title |-> Undefined, description |-> Undefined,
     body |-> Undefined, footer |-> FALSE]

\* a request before Page is called
IdleRequest ==
    [pc |-> "idle", params |-> [slug |-> <<>>], page |-> <<>>,
     loadResult |-> NoLoadResult, outcome |-> "none", rendered |-> NoRender,
     getPageCalls |-> 0, loadCalls |-> 0]

\* notFound(): throws, which ends the request in the not-found outcome
NotFoundReturning(req) == [req EXCEPT !.outcome = "notFound"]
NotFound(req) == [req EXCEPT !.pc = "done", !.outcome = "notFound"]

\* an exception other than notFound()'s leaves Page: the promise rejects
Throw(req) == [req EXCEPT !.pc = "done", !.outcome = "error"]

\* `if (!page)`
PageMissingNever(page) == FALSE
PageMissing(page) == page = <<>>

\* `if (!MdxContent)`
BodyMissingNever(body) == FALSE
BodyMissing(body) == ~Truthy(body)

\* the JSX Page returns
RenderFromData(req, loaded) ==
    [req EXCEPT
       !.pc = "done",
       !.outcome = "rendered",
       !.rendered =
          [toc |-> req.page[1].data.toc,
           title |-> IF Truthy(req.page[1].data.title)
                     THEN req.page[1].data.title ELSE Null,
           description |-> IF Truthy(req.page[1].data.description)
                           THEN req.page[1].data.description ELSE Null,
           body |-> req.page[1].data.body,
           footer |-> TRUE]]
Render(req, loaded) ==
    [req EXCEPT
       !.pc = "done",
       !.outcome = "rendered",
       !.rendered =
          [toc |-> loaded.toc,
           title |-> IF Truthy(loaded.title) THEN loaded.title ELSE Null,
           description |-> IF Truthy(loaded.description)
                           THEN loaded.description ELSE Null,
           body |-> loaded.body,
           footer |-> TRUE]]

\* Page from `const MdxContent = loaded.body` to its end
PageFromLoaded(req, loaded) ==
    IF loaded.kind # "object" THEN Throw(req)
    ELSE IF BodyMissing(loaded.body) THEN NotFound(req)
    ELSE Render(req, loaded)

\* `resolvedParams.slug ?? []`
SlugOfParamsFirstSegment(params) ==
    IF params.slug = <<>> \/ params.slug = << <<>> >> THEN <<>>
    ELSE <<Head(params.slug[1])>>
\* `resolvedParams.slug ?? ['index']`
SlugOfParamsDefaultIndex(params) ==
    IF params.slug = <<>> THEN <<"index">> ELSE params.slug[1]
SlugOfParams(params) == IF params.slug = <<>> THEN <<>> ELSE params.slug[1]

\* Page with a further await between getPage and the use of its result
PageFromParamsAwaitingPage(req, tree) ==
    [req EXCEPT !.pc = "awaitPage",
                !.page = getPage(tree, SlugOfParams(req.params)),
                !.getPageCalls = @ + 1]

\* Page taking the attached fields whether or not the node declares load()
PageFromParamsNeverLoading(req, tree) ==
    LET slug == SlugOfParams(req.params)
        page == getPage(tree, slug)
        got == [req EXCEPT !.page = page, !.getPageCalls = @ + 1]
    IN IF PageMissing(page) THEN NotFound(got)
       ELSE IF page = <<>> THEN Throw(got)
       ELSE PageFromLoaded(got, DataAsLoaded(page[1].data))

\* Page from the resumption after `await params` to the call of load(), or
\* to its end when the node declares no load()
PageFromParams(req, tree) ==
    LET slug == SlugOfParams(req.params)
        page == getPage(tree, slug)
        got == [req EXCEPT !.page = page, !.getPageCalls = @ + 1]
    IN IF PageMissing(page) THEN NotFound(got)
       ELSE IF page = <<>> THEN Throw(got)
       ELSE IF page[1].data.load
            THEN [got EXCEPT !.pc = "awaitLoad", !.loadCalls = @ + 1]
       ELSE PageFromLoaded(got, DataAsLoaded(page[1].data))

\* Page from the resumption after `await data.load()` to its end
PageFromLoad(req, result) ==
    LET got == [req EXCEPT !.loadResult = result]
    IN IF result.kind = "rejected" THEN Throw(got)
       ELSE PageFromLoaded(got, result)

\* the route parameters a request can carry
SlugTs == <<"typescript", "ts">>
ReqParams ==
    { [slug |-> <<>>],
      [slug |-> << <<>> >>],
      [slug |-> <<SlugTs>>],
      [slug |-> << <<"typescript", "does-not-exist">> >>],
      [slug |-> << <<"typescript">> >>],
      [slug |-> << <<"TypeScript", "ts">> >>],
      [slug |-> << <<"typescript", "adv-ts-patterns">> >>],
      [slug |-> << <<"react", "react-core-concepts">> >>] }

\* generateStaticParams()
generateStaticParamsAllNodes(tree) ==
    LET nodes == NodesOf(tree)
    IN [i \in DOMAIN nodes |->
           [slug |-> << IF nodes[i].page = <<>> THEN <<nodes[i].seg>>
                        ELSE nodes[i].page[1].slugs >>]]
generateStaticParams(tree) == generateParams(tree)

\* build time: the routes are enumerated
Build ==
    /\ staticParams = <<>>
    /\ staticParams' = generateStaticParams(pageTree)
    /\ UNCHANGED <<footerVars, pageTree, requests>>

\* Page(params) is called and runs to `await params`
PageCall(r) ==
    /\ requests[r].pc = "idle"
    /\ \E params \in ReqParams \cup {staticParams[i] : i \in DOMAIN staticParams} :
          requests' = [requests EXCEPT
                         ![r] = [@ EXCEPT !.pc = "awaitParams", !.params = params]]
    /\ UNCHANGED <<footerVars, pageTree, staticParams>>

\* the params promise resolves and Page runs on
ParamsResolved(r) ==
    /\ requests[r].pc = "awaitParams"
    /\ requests' = [requests EXCEPT ![r] = PageFromParams(@, pageTree)]
    /\ UNCHANGED <<footerVars, pageTree, staticParams>>

\* the tree with the data of the page at slugs replaced
RECURSIVE SetData(_, _, _)
SetData(node, slugs, data) ==
    IF slugs = <<>>
    THEN [node EXCEPT !.page = IF node.page = <<>> THEN <<>>
                                ELSE <<[node.page[1] EXCEPT !.data = data]>>]
    ELSE [node EXCEPT !.children =
             [i \in DOMAIN node.children |->
                 IF node.children[i].seg = Head(slugs)
                 THEN SetData(node.children[i], Tail(slugs), data)
                 ELSE node.children[i]]]

\* a Page that keeps what load() gave on the node's data
LoadSettledStoring(r) ==
    /\ requests[r].pc = "awaitLoad"
    /\ \E result \in LoadResults :
          /\ requests' = [requests EXCEPT ![r] = PageFromLoad(@, result)]
          /\ pageTree' = SetData(pageTree, requests[r].page[1].slugs,
                                 [load |-> TRUE, body |-> result.body,
                                  toc |-> result.toc, title |-> result.title,
                                  description |-> result.description])
    /\ UNCHANGED <<footerVars, staticParams>>

\* the load() promise settles and Page runs on
LoadSettled(r) ==
    /\ requests[r].pc = "awaitLoad"
    /\ \E result \in LoadResults :
          requests' = [requests EXCEPT ![r] = PageFromLoad(@, result)]
    /\ UNCHANGED <<footerVars, pageTree, staticParams>>

InitPage ==
    /\ footerList = <<>>
    /\ pathname = UrlA
    /\ memo = NoMemo
    /\ footer = NoFooter
    /\ remembered = NoRemembered
    /\ pageTree \in Trees
    /\ staticParams = <<>>
    /\ requests = [r \in 1..MaxReq |-> IdleRequest]

NextPage ==
    \/ Build
    \/ \E r \in 1..MaxReq : PageCall(r)
    \/ \E r \in 1..MaxReq : ParamsResolved(r)
    \/ \E r \in 1..MaxReq : LoadSettled(r)

SpecPage == InitPage /\ [][NextPage]_vars

\* a pending promise settles: the framework resolves params, and load() is
\* taken to complete (to resolve or to reject)
FairPage ==
    \A r \in 1..MaxReq :
        WF_vars(ParamsResolved(r)) /\ WF_vars(LoadSettled(r))

SpecPageLive == InitPage /\ [][NextPage]_vars /\ FairPage

\* the site after construction: the tree of the sidebar and its nav list,
\* no request made and no footer rendered yet
SiteNavList == <<ItemA, ItemB, ItemC>>

InitSite ==
    /\ footerList = SiteNavList
    /\ pathname \in Paths
    /\ memo = NoMemo
    /\ footer = NoFooter
    /\ remembered = NoRemembered
    /\ pageTree = SidebarTree
    /\ staticParams = <<>>
    /\ requests = [r \in 1..MaxReq |-> IdleRequest]

\* page requests and footer renders, in any interleaving
NextSite ==
    \/ \E r \in 1..MaxReq : PageCall(r)
    \/ \E r \in 1..MaxReq : ParamsResolved(r)
    \/ \E r \in 1..MaxReq : LoadSettled(r)
    \/ Navigate
    \/ Rerender

SpecSite == InitSite /\ [][NextSite]_vars

InitFooter ==
    /\ footerList \in NavLists
    /\ pathname \in Paths
    /\ memo = NoMemo
    /\ footer = NoFooter
    /\ remembered = NoRemembered
    /\ pageTree = SidebarTree
    /\ staticParams = <<>>
    /\ requests = <<>>

NextFooter ==
    \/ Navigate
    \/ FooterItemsAdd
    \/ FooterItemsRemove
    \/ Rerender

SpecFooter == InitFooter /\ [][NextFooter]_vars

\* the footer together with the observer of its evaluations
NextFooterObserved ==
    \/ Navigate
    \/ FooterItemsAdd
    \/ FooterItemsRemove
    \/ Rerender
    \/ Remember

SpecFooterObserved == InitFooter /\ [][NextFooterObserved]_vars

\* ------------------------------------------------- the nav list of a tree

\* the url of a page under app/docs: "/docs" and one "/segment" per slug
\* segment, as a sequence of the separators and the segments
RECURSIVE UrlOfSlugs(_)
UrlOfSlugs(slugs) ==
    IF slugs = <<>> THEN <<"/", "docs">>
    ELSE UrlOfSlugs(SubSeq(slugs, 1, Len(slugs) - 1)) \o <<"/", slugs[Len(slugs)]>>

UrlDocs == UrlOfSlugs(<<>>)

\* a leaf: a node with a page and no children
IsLeaf(node) == node.page # <<>> /\ node.children = <<>>

\* the nav entry of a leaf
EntryOf(node) ==
    [url |-> UrlOfSlugs(node.page[1].slugs),
     name |-> node.seg,
     description |-> node.page[1].data.description]

\* useFooterItems(): one entry per leaf of the tree, in depth-first order
useFooterItems(tree) ==
    LET leaves == SelectSeq(NodesOf(tree), IsLeaf)
    IN [i \in DOMAIN leaves |-> EntryOf(leaves[i])]

\* the categories of the sidebar, in its order
SidebarCategories == SidebarTree.children

\* the sub-sequences of a sequence, each in the order of the sequence
RECURSIVE SubSeqsOf(_)
SubSeqsOf(s) ==
    IF s = <<>> THEN {<<>>}
    ELSE LET rest == SubSeqsOf(Tail(s))
         IN rest \cup {<<Head(s)>> \o t : t \in rest}

\* the trees a site can be built from: the sidebar, the sidebar with some
\* of its categories left out, and the tree with index pages
DocTrees ==
    {[seg |-> "", page |-> <<>>, children |-> cs] : cs \in SubSeqsOf(SidebarCategories)}
        \cup {IndexTree}

\* the pathnames under which the footer of a docs page renders: the urls of
\* the nav list and the url of the docs root
DocPaths(list) == {list[i].url : i \in DOMAIN list} \cup {UrlDocs}

\* a sidebar link is followed: the pathname becomes the url of some docs
\* page and the footer renders again
NavigateDocs ==
    /\ \E p \in DocPaths(footerList) :
          p # pathname /\ DocFooter(footerList, p) /\ Observe(footerList, p)
    /\ UNCHANGED pageVars

\* the next link of the rendered footer is followed: the pathname becomes
\* its href and the footer renders again
FollowNext ==
    /\ footer.mounted
    /\ \E k \in DOMAIN footer.links :
          /\ footer.links[k].index = 1
          /\ DocFooter(footerList, footer.links[k].href)
          /\ Observe(footerList, footer.links[k].href)
    /\ UNCHANGED pageVars

\* the previous link of the rendered footer is followed
FollowPrevious ==
    /\ footer.mounted
    /\ \E k \in DOMAIN footer.links :
          /\ footer.links[k].index = 0
          /\ DocFooter(footerList, footer.links[k].href)
          /\ Observe(footerList, footer.links[k].href)
    /\ UNCHANGED pageVars

\* a docs site after its build: the nav list is the flattened tree
InitSidebar ==
    /\ pageTree \in DocTrees
    /\ footerList = useFooterItems(pageTree)
    /\ pathname \in DocPaths(footerList)
    /\ memo = NoMemo
    /\ footer = NoFooter
    /\ remembered = NoRemembered
    /\ staticParams = <<>>
    /\ requests = <<>>

NextSidebar ==
    \/ NavigateDocs
    \/ Rerender
    \/ FollowNext
    \/ FollowPrevious

SpecSidebar == InitSidebar /\ [][NextSidebar]_vars

\* --------------------------------------------------- reading along next

\* a reader opens the first page of the nav list and from then on only
\* follows the next link of the footer
InitReader ==
    /\ footerList \in NavLists
    /\ Len(footerList) >= 1
    /\ pathname = footerList[1].url
    /\ memo = NoMemo
    /\ footer = NoFooter
    /\ remembered = NoRemembered
    /\ pageTree = SidebarTree
    /\ staticParams = <<>>
    /\ requests = <<>>

NextReader ==
    \/ Rerender
    \/ FollowNext

\* the footer of the opened page renders, and the reader goes on following
\* the next link for as long as there is one
FairReader == WF_vars(Rerender) /\ WF_vars(FollowNext)

SpecReader == InitReader /\ [][NextReader]_vars /\ FairReader

\* ================================================================= claims

\* the slugs of the pages of a tree
SlugsOf(tree) ==
    LET pages == getPages(tree) IN {pages[i].slugs : i \in DOMAIN pages}

\* the slug a request resolves: `resolvedParams.slug ?? []`
SlugOfRequest(req) == IF req.params.slug = <<>> THEN <<>> ELSE req.params.slug[1]

\* the positions (1-based) of the entries that are active for the pathname
ActivePositions == {k \in DOMAIN footerList : ItemIsActive(footerList[k], pathname)}
FirstActive == CHOOSE k \in ActivePositions : \A j \in ActivePositions : k <= j

\* the entry before / after position k of the nav list, when there is one
EntryBefore(k) == IF k > 1 THEN <<footerList[k - 1]>> ELSE <<>>
EntryAfter(k) == IF k < Len(footerList) THEN <<footerList[k + 1]>> ELSE <<>>

\* C1: a request whose node declares load(), and whose load() rejected or
\* resolved to undefined/null, ends in the not-found outcome (never in an
\* uncaught error, never in a rendered page).
C1_FailedLoadIsNotFound ==
    \A r \in DOMAIN requests :
        (/\ requests[r].pc = "done"
         /\ requests[r].loadResult.kind \in {"rejected", "undefined", "null"})
        => requests[r].outcome = "notFound"

\* C2: a request for a slug that is the slug of no page of the tree gets no
\* node from getPage and ends in not-found, with load() never called and
\* nothing rendered.
C2_UnknownSlugIsNotFound ==
    \A r \in DOMAIN requests :
        (/\ requests[r].pc \notin {"idle", "awaitParams"}
         /\ SlugOfRequest(requests[r]) \notin SlugsOf(pageTree))
        => /\ requests[r].page = <<>>
           /\ requests[r].pc = "done"
           /\ requests[r].outcome = "notFound"
           /\ requests[r].loadCalls = 0
           /\ requests[r].rendered = NoRender

C2_Witness ==
    \E r \in DOMAIN requests :
        /\ requests[r].pc = "done"
        /\ requests[r].getPageCalls = 1
        /\ SlugOfRequest(requests[r]) = <<"typescript", "does-not-exist">>
        /\ requests[r].outcome = "notFound"

\* C3: every slug generateStaticParams returned resolves with getPage on
\* the same tree to a node.
C3_EnumeratedSlugsResolve ==
    \A i \in DOMAIN staticParams :
        /\ staticParams[i].slug # <<>>
        /\ getPage(pageTree, staticParams[i].slug[1]) # <<>>

C3_Witness ==
    /\ Len(staticParams) >= 2
    /\ \E r \in DOMAIN requests, i \in DOMAIN staticParams :
          /\ requests[r].params = staticParams[i]
          /\ requests[r].getPageCalls = 1
          /\ requests[r].page # <<>>

\* C4: when exactly one entry is active and it is neither the first nor
\* the last, previous is the entry before it and next the entry after it.
C4_InteriorNeighbors ==
    (/\ footer.mounted
     /\ Cardinality(ActivePositions) = 1
     /\ FirstActive > 1
     /\ FirstActive < Len(footerList))
    => /\ footer.previous = <<footerList[FirstActive - 1]>>
       /\ footer.next = <<footerList[FirstActive + 1]>>

C4_Witness ==
    /\ footer.mounted
    /\ pathname = UrlB
    /\ Len(footerList) = 3
    /\ footerList[1].url = UrlA /\ footerList[2].url = UrlB /\ footerList[3].url = UrlC
    /\ footer.previous = <<footerList[1]>>
    /\ footer.next = <<footerList[3]>>

\* C5 as stated: an active first entry gives no previous, an active last
\* entry gives no next, a one-entry list gives neither.
C5_EndsAsStated ==
    footer.mounted =>
        /\ (1 \in ActivePositions => footer.previous = <<>>)
        /\ (Len(footerList) \in ActivePositions => footer.next = <<>>)
        /\ (Len(footerList) = 1 => footer.previous = <<>> /\ footer.next = <<>>)

\* C5 amended: an active first entry gives no previous; a last entry that is
\* active while no earlier entry is gives no next; a one-entry list gives
\* neither; previous and next are never taken from outside the list or from
\* its other end: they are exactly the entries next to the first active
\* position, where the list has them.
C5_EndsOfList ==
    footer.mounted =>
        /\ (1 \in ActivePositions => footer.previous = <<>>)
        /\ (ActivePositions = {Len(footerList)} => footer.next = <<>>)
        /\ (Len(footerList) = 1 => footer.previous = <<>> /\ footer.next = <<>>)
        /\ (ActivePositions # {} =>
               /\ footer.previous = EntryBefore(FirstActive)
               /\ footer.next = EntryAfter(FirstActive))

C5_Witness ==
    /\ footer.mounted
    /\ Len(footerList) = 3
    /\ ActivePositions = {3}
    /\ footer.previous = <<footerList[2]>>
    /\ footer.next = <<>>

\* C6: when no entry is active (the empty list included), previous and next
\* are both undefined and the footer renders the Home link as its only link.
C6_NoActiveEntry ==
    (footer.mounted /\ ActivePositions = {})
    => /\ footer.previous = <<>>
       /\ footer.next = <<>>
       /\ footer.links = <<HomeLink>>

C6_Witness ==
    /\ footer.mounted
    /\ Len(footerList) = 2
    /\ ActivePositions = {}
    /\ footer.links = <<HomeLink>>

\* C7: when several entries are active, previous and next are the entries
\* around the smallest active position, whatever lies around the later ones.
C7_FirstMatchWins ==
    (footer.mounted /\ Cardinality(ActivePositions) >= 2)
    => /\ footer.previous = EntryBefore(FirstActive)
       /\ footer.next = EntryAfter(FirstActive)

C7_Witness ==
    /\ footer.mounted
    /\ Len(footerList) = 3
    /\ ActivePositions = {1, 3}
    /\ footerList[2].url = UrlB
    /\ footer.previous = <<>>
    /\ footer.next = <<footerList[2]>>

\* C8: an evaluation with the same pathname and the same nav list as a
\* remembered earlier one shows the same (previous, next) pair, whatever
\* was evaluated in between.
C8_SameInputsSamePair ==
    (/\ remembered.set
     /\ remembered.list = footerList
     /\ remembered.path = pathname)
    => /\ footer.previous = remembered.previous
       /\ footer.next = remembered.next

C8_Witness ==
    /\ remembered.set
    /\ remembered.others
    /\ remembered.list = footerList
    /\ remembered.path = pathname
    /\ footer.previous # <<>>
    /\ footer.next # <<>>

\* C9: a render that was not caused by new navigation data leaves the nav
\* list as it was, and the scan behind the shown pair called the predicate
\* on no more entries than the list has.
C9_RenderStep ==
    /\ (Navigate \/ Rerender) => footerList' = footerList
    /\ footer'.mounted =>
          /\ footer'.examined <= Len(footerList')
          /\ memo'.deps[1] = footerList'
C9_ReadOnlyBoundedScan == [][C9_RenderStep]_vars

C9_Witness ==
    /\ footer.mounted
    /\ Len(footerList) = 3
    /\ ActivePositions = {}
    /\ footer.examined = 3

\* the positions of the links of the rendered footer that lead to "/"
HomePositions == {k \in DOMAIN footer.links : footer.links[k].href = UrlHome}

\* C10: every rendered footer holds the Home link (href "/") exactly once;
\* a previous link, when there is one, stands before it and a next link,
\* when there is one, after it.
C10_HomeBetween ==
    footer.mounted =>
        /\ Cardinality(HomePositions) = 1
        /\ \A h \in HomePositions :
              /\ footer.links[h] = HomeLink
              /\ footer.previous # <<>> =>
                    \E k \in 1..(h - 1) :
                        footer.links[k] = FooterItemLink(footer.previous[1], 0)
              /\ footer.next # <<>> =>
                    \E k \in (h + 1)..Len(footer.links) :
                        footer.links[k] = FooterItemLink(footer.next[1], 1)
              /\ Len(footer.links) =
                    1 + (IF footer.previous # <<>> THEN 1 ELSE 0)
                      + (IF footer.next # <<>> THEN 1 ELSE 0)

C10_Witness ==
    /\ footer.mounted
    /\ Len(footer.links) = 3
    /\ footer.links[2] = HomeLink
    /\ footer.links[1].index = 0
    /\ footer.links[3].index = 1

\* the links of the rendered footer that FooterItemLink produced for index
ItemLinks(index) ==
    {footer.links[k] : k \in {j \in DOMAIN footer.links : footer.links[j].index = index}}

\* what the claim expects a link to show for an entry
ExpectedText(entry, default) ==
    IF entry.description = Undefined \/ entry.description = Null
    THEN default ELSE entry.description

\* C11: the previous link shows the entry's name and its description, or
\* "Previous page" when the description is undefined or null; the next link
\* likewise with "Next page". An empty description is shown as it is.
C11_LinkLabels ==
    footer.mounted =>
        /\ footer.previous # <<>> =>
              /\ Cardinality(ItemLinks(0)) = 1
              /\ \A l \in ItemLinks(0) :
                    /\ l.href = footer.previous[1].url
                    /\ l.name = footer.previous[1].name
                    /\ l.text = ExpectedText(footer.previous[1], "Previous page")
        /\ footer.next # <<>> =>
              /\ Cardinality(ItemLinks(1)) = 1
              /\ \A l \in ItemLinks(1) :
                    /\ l.href = footer.next[1].url
                    /\ l.name = footer.next[1].name
                    /\ l.text = ExpectedText(footer.next[1], "Next page")

C11_Witness ==
    /\ footer.mounted
    /\ footer.previous # <<>> /\ footer.previous[1].description = ""
    /\ footer.next # <<>> /\ footer.next[1].description = Null
    /\ Len(footer.links) = 3
    /\ footer.links[1].text = ""
    /\ footer.links[3].text = "Next page"

\* the number of grid columns a column class selects
Columns(class) == IF class = "md:grid-cols-3" THEN 3 ELSE 2

\* C12: the footer has three columns exactly when previous and next are
\* both present and two columns otherwise, so with at least one of them
\* present there are as many columns as links.
C12_ColumnLayout ==
    footer.mounted =>
        /\ footer.columnClass \in {"md:grid-cols-2", "md:grid-cols-3"}
        /\ footer.columnClass = "md:grid-cols-3"
              <=> (footer.previous # <<>> /\ footer.next # <<>>)
        /\ (footer.previous # <<>> \/ footer.next # <<>>)
              => Columns(footer.columnClass) = Len(footer.links)

C12_Witness ==
    /\ footer.mounted
    /\ footer.previous # <<>>
    /\ footer.next = <<>>
    /\ footer.columnClass = "md:grid-cols-2"
    /\ Len(footer.links) = 2

\* C14 as stated: a request that is suspended is suspended in load().
C14_OnlyLoadSuspends ==
    \A r \in DOMAIN requests :
        requests[r].pc \notin {"idle", "done"} => requests[r].pc = "awaitLoad"

\* C14 amended: a request is suspended at one of two points only, the
\* await of the route parameters (nothing resolved yet) and the await of
\* load() (node resolved and load() called); obtaining the slug's node and
\* calling load() happen without a suspension between them.
C14_TwoSuspensionPoints ==
    \A r \in DOMAIN requests :
        /\ requests[r].pc \in {"idle", "awaitParams", "awaitLoad", "done"}
        /\ requests[r].pc = "awaitParams" =>
              /\ requests[r].getPageCalls = 0
              /\ requests[r].loadCalls = 0
        /\ requests[r].pc = "awaitLoad" =>
              /\ requests[r].getPageCalls = 1
              /\ requests[r].loadCalls = 1
              /\ requests[r].page # <<>>
        /\ (requests[r].getPageCalls = 1 /\ requests[r].pc # "done") =>
              requests[r].loadCalls = 1

C14_Witness ==
    \E r, q \in DOMAIN requests :
        /\ requests[r].pc = "awaitParams"
        /\ requests[q].pc = "awaitLoad"

\* C15: a rendered page of a node that declares load() shows the body, the
\* table of contents, the title and the description of the completed load
\* result.
C15_RendersLoadResult ==
    \A r \in DOMAIN requests :
        (/\ requests[r].outcome = "rendered"
         /\ requests[r].page # <<>>
         /\ requests[r].page[1].data.load)
        => /\ requests[r].loadCalls = 1
           /\ requests[r].loadResult.kind = "object"
           /\ requests[r].rendered.body = requests[r].loadResult.body
           /\ requests[r].rendered.toc = requests[r].loadResult.toc
           /\ requests[r].rendered.title =
                 (IF requests[r].loadResult.title \in {Undefined, Null, ""}
                  THEN Null ELSE requests[r].loadResult.title)
           /\ requests[r].rendered.description =
                 (IF requests[r].loadResult.description \in {Undefined, Null, ""}
                  THEN Null ELSE requests[r].loadResult.description)

C15_Witness ==
    \E r \in DOMAIN requests :
        /\ requests[r].outcome = "rendered"
        /\ requests[r].page # <<>>
        /\ requests[r].page[1].data.load
        /\ requests[r].rendered.body = "mdx:loaded"
        /\ requests[r].rendered.title = "Loaded title"

\* every node of a subtree with the segments that lead to it from the root
RECURSIVE PathsOfNode(_, _)
RECURSIVE PathsOfChildren(_, _)
PathsOfNode(node, path) ==
    <<[path |-> path, page |-> node.page]>> \o PathsOfChildren(node.children, path)
PathsOfChildren(children, path) ==
    IF children = <<>> THEN <<>>
    ELSE PathsOfNode(Head(children), Append(path, Head(children).seg))
             \o PathsOfChildren(Tail(children), path)

\* what resolution has to give: the page of the node the slug's segments
\* lead to, and nothing when no node lies there or the node has no page
ExpectedPage(tree, slug) ==
    LET nodes == PathsOfNode(tree, <<>>)
        hits == {i \in DOMAIN nodes : nodes[i].path = slug}
    IN IF hits = {} THEN <<>>
       ELSE nodes[CHOOSE i \in hits : \A j \in hits : i <= j].page

\* C16: resolution follows the slug segment by segment with exact equality:
\* NotFound when a segment has no matching child or the slug ends at a
\* category without index page, and otherwise the node where the slug ends.
C16_Resolution ==
    \A r \in DOMAIN requests :
        requests[r].getPageCalls = 1 =>
            /\ requests[r].page = ExpectedPage(pageTree, SlugOfRequest(requests[r]))
            /\ requests[r].page = <<>> => requests[r].outcome = "notFound"
            /\ requests[r].page # <<>> =>
                  requests[r].page[1].slugs = SlugOfRequest(requests[r])

C16_Witness ==
    \E r, q \in DOMAIN requests :
        /\ pageTree = IndexTree
        /\ SlugOfRequest(requests[r]) = <<"TypeScript", "ts">>
        /\ requests[r].outcome = "notFound"
        /\ SlugOfRequest(requests[q]) = <<"typescript">>
        /\ requests[q].getPageCalls = 1
        /\ requests[q].page # <<>>

\* C17: in the tree of the repository's sidebar typescript/ts resolves to
\* the TypeScript notes leaf and typescript/does-not-exist to NotFound.
C17_SidebarScenario ==
    \A r \in DOMAIN requests :
        (pageTree = SidebarTree /\ requests[r].getPageCalls = 1) =>
            /\ SlugOfRequest(requests[r]) = <<"typescript", "ts">> =>
                  /\ requests[r].page # <<>>
                  /\ requests[r].page[1].slugs = <<"typescript", "ts">>
                  /\ requests[r].outcome # "notFound" \/ requests[r].loadCalls = 1
            /\ SlugOfRequest(requests[r]) = <<"typescript", "does-not-exist">> =>
                  /\ requests[r].page = <<>>
                  /\ requests[r].outcome = "notFound"

C17_Witness ==
    \E r, q \in DOMAIN requests :
        /\ pageTree = SidebarTree
        /\ SlugOfRequest(requests[r]) = <<"typescript", "ts">>
        /\ requests[r].page # <<>>
        /\ SlugOfRequest(requests[q]) = <<"typescript", "does-not-exist">>
        /\ requests[q].outcome = "notFound"

\* C18: no page request and no footer render, in any interleaving and with
\* any outcome, changes the page tree or the nav list.
C18_TreeAndNavListKept ==
    [][pageTree' = pageTree /\ footerList' = footerList]_vars

C18_Witness ==
    /\ footer.mounted
    /\ footer.previous # <<>>
    /\ pageTree = SidebarTree
    /\ footerList = SiteNavList
    /\ \E r, q \in DOMAIN requests :
          /\ requests[r].outcome = "rendered"
          /\ requests[q].outcome \in {"notFound", "error"}
          /\ requests[q].loadCalls = 1

\* C19: a request that ends without a rendered page leaves the nodes of the
\* tree, and with them whatever they hold of their content, and the other
\* requests as they were; requests for the same slug get the same node,
\* whichever of them came first.
C19_Step ==
    /\ \A r \in DOMAIN requests :
          (/\ requests[r].pc # "done"
           /\ requests'[r].pc = "done"
           /\ requests'[r].outcome # "rendered")
          => /\ pageTree' = pageTree
             /\ staticParams' = staticParams
             /\ \A q \in DOMAIN requests \ {r} : requests'[q] = requests[q]
    /\ \A r, q \in DOMAIN requests :
          (/\ requests'[r].getPageCalls = 1
           /\ requests'[q].getPageCalls = 1
           /\ requests'[r].params = requests'[q].params)
          => requests'[r].page = requests'[q].page
C19_FailureStoresNothing == [][C19_Step]_vars

C19_Witness ==
    \E r, q \in DOMAIN requests :
        /\ r # q
        /\ requests[r].outcome = "error"
        /\ requests[r].loadResult.kind = "rejected"
        /\ requests[q].params = requests[r].params
        /\ requests[q].pc = "awaitLoad"

\* C20: a request that has signalled not-found takes no further step, and
\* no request calls getPage or load() more than once.
C20_Step ==
    \A r \in DOMAIN requests :
        /\ requests[r].outcome = "notFound" => requests'[r] = requests[r]
        /\ requests'[r].getPageCalls <= 1
        /\ requests'[r].loadCalls <= 1
        /\ requests'[r].outcome = "notFound" =>
              /\ requests'[r].pc = "done"
              /\ requests'[r].rendered = NoRender
C20_NotFoundIsTerminal == [][C20_Step]_vars

C20_Witness ==
    \E r, q \in DOMAIN requests :
        /\ requests[r].outcome = "notFound" /\ requests[r].loadCalls = 0
        /\ requests[q].outcome = "notFound" /\ requests[q].loadCalls = 1

\* the slugs of the leaves of a subtree, read depth first
RECURSIVE LeafSlugsOf(_)
RECURSIVE LeafSlugsOfAll(_)
LeafSlugsOf(node) ==
    IF node.children = <<>>
    THEN (IF node.page = <<>> THEN <<>> ELSE <<node.page[1].slugs>>)
    ELSE LeafSlugsOfAll(node.children)
LeafSlugsOfAll(nodes) ==
    IF nodes = <<>> THEN <<>>
    ELSE LeafSlugsOf(Head(nodes)) \o LeafSlugsOfAll(Tail(nodes))

\* the reading order of the repository's sidebar
SidebarOrder ==
    << <<"javascript", "js">>, <<"javascript", "adv-js">>,
       <<"typescript", "ts">>, <<"typescript", "adv-ts-patterns">>,
       <<"typescript", "system-design-decisions">>,
       <<"react", "react">>, <<"react", "react-core-concepts">>,
       <<"redux", "redux">>, <<"redux", "rtk-rq">> >>

UrlLastTypeScript ==
    <<"/", "docs", "/", "typescript", "/", "system-design-decisions">>
UrlFirstReact == <<"/", "docs", "/", "react", "/", "react">>

\* C21: the nav list holds one entry per leaf of the page tree, in
\* depth-first order; for the sidebar that order is js, adv-js, ts,
\* adv-ts-patterns, system-design-decisions, react, react-core-concepts,
\* redux, rtk-rq, and the footer of the last TypeScript page shows the first
\* React page as next.
C21_NavListIsFlattenedTree ==
    LET leaves == LeafSlugsOf(pageTree) IN
    /\ Len(footerList) = Len(leaves)
    /\ \A i \in DOMAIN footerList :
          /\ footerList[i].url = UrlOfSlugs(leaves[i])
          /\ footerList[i].name = leaves[i][Len(leaves[i])]
    /\ pageTree = SidebarTree =>
          /\ leaves = SidebarOrder
          /\ footerList[5].url = UrlLastTypeScript
          /\ footerList[6].url = UrlFirstReact
    /\ (footer.mounted /\ pageTree = SidebarTree /\ pathname = UrlLastTypeScript) =>
          /\ footer.next # <<>>
          /\ footer.next[1].name = "react"
          /\ footer.next[1].url = UrlFirstReact
          /\ footer.previous # <<>>
          /\ footer.previous[1].name = "adv-ts-patterns"

C21_Witness ==
    /\ footer.mounted
    /\ pageTree = SidebarTree
    /\ Len(footerList) = 9
    /\ pathname = UrlLastTypeScript
    /\ footer.next # <<>>
    /\ footer.next[1].url = UrlFirstReact

\* the positions of the entries whose url is the pathname itself
ExactPositions == {k \in DOMAIN footerList : footerList[k].url = pathname}
FirstExact == CHOOSE k \in ExactPositions : \A j \in ExactPositions : k <= j

\* C22: the current entry is the first one whose url equals the pathname;
\* an entry whose url is only a path-prefix or a substring of the pathname
\* is passed over by the scan, and with no equal url there is no current
\* entry at all.
C22_ExactMatchOnly ==
    footer.mounted =>
        /\ ExactPositions = {} =>
              /\ footer.examined = Len(footerList)
              /\ footer.previous = <<>>
              /\ footer.next = <<>>
        /\ ExactPositions # {} =>
              /\ footer.examined = FirstExact
              /\ footer.previous = EntryBefore(FirstExact)
              /\ footer.next = EntryAfter(FirstExact)

C22_Witness ==
    /\ footer.mounted
    /\ pathname = UrlAB
    /\ Len(footerList) = 3
    /\ footerList[2].url = UrlA
    /\ StartsWith(pathname, footerList[2].url \o <<"/">>)
    /\ footerList[1].url = UrlB
    /\ SubSeq(pathname, 3, 4) = footerList[1].url
    /\ footer.examined = 3
    /\ footer.links = <<HomeLink>>

\* C23: load() is called exactly when the resolved node declares it. A node
\* without load() is rendered from the body, table of contents, title and
\* description attached to it, with no suspension, and ends in not-found
\* when no body is attached.
C23_LoadIffDeclared ==
    \A r \in DOMAIN requests :
        (requests[r].getPageCalls = 1 /\ requests[r].page # <<>>) =>
            LET data == requests[r].page[1].data IN
            /\ data.load => requests[r].loadCalls = 1
            /\ ~data.load =>
                  /\ requests[r].loadCalls = 0
                  /\ requests[r].loadResult = NoLoadResult
                  /\ requests[r].pc = "done"
                  /\ data.body \in {Undefined, Null, ""} =>
                        /\ requests[r].outcome = "notFound"
                        /\ requests[r].rendered = NoRender
                  /\ data.body \notin {Undefined, Null, ""} =>
                        /\ requests[r].outcome = "rendered"
                        /\ requests[r].rendered.body = data.body
                        /\ requests[r].rendered.toc = data.toc
                        /\ requests[r].rendered.title =
                              (IF data.title \in {Undefined, Null, ""}
                               THEN Null ELSE data.title)
                        /\ requests[r].rendered.description =
                              (IF data.description \in {Undefined, Null, ""}
                               THEN Null ELSE data.description)

C23_Witness ==
    \E r, q \in DOMAIN requests :
        /\ requests[r].page # <<>>
        /\ ~requests[r].page[1].data.load
        /\ requests[r].loadCalls = 0
        /\ requests[r].outcome = "rendered"
        /\ requests[r].rendered.body = "mdx:adv-ts-patterns"
        /\ requests[q].page # <<>>
        /\ ~requests[q].page[1].data.load
        /\ requests[q].loadCalls = 0
        /\ requests[q].outcome = "notFound"

\* C24: a request with the rendered outcome has a resolved node and shows a
\* body that is present; a request without that outcome shows nothing.
C24_RenderedHasNodeAndBody ==
    \A r \in DOMAIN requests :
        /\ requests[r].outcome = "rendered" =>
              /\ requests[r].pc = "done"
              /\ requests[r].getPageCalls = 1
              /\ requests[r].page # <<>>
              /\ requests[r].rendered.body \notin {Undefined, Null, ""}
              /\ requests[r].rendered.footer
        /\ requests[r].outcome # "rendered" => requests[r].rendered = NoRender

C24_Witness ==
    \E r, q \in DOMAIN requests :
        /\ requests[r].outcome = "rendered"
        /\ requests[r].rendered.body = "mdx:loaded"
        /\ requests[q].outcome = "rendered"
        /\ requests[q].rendered.body = "mdx:index"

\* C25: a request whose route parameters carry no slug resolves the empty
\* slug: it gets the root index page of the tree and that page's outcome,
\* and ends in not-found, with load() never called, when the tree has no
\* root index page.
C25_NoSlugIsRootIndex ==
    \A r \in DOMAIN requests :
        (requests[r].params.slug = <<>> /\ requests[r].getPageCalls = 1) =>
            /\ requests[r].page = ExpectedPage(pageTree, <<>>)
            /\ requests[r].page = pageTree.page
            /\ pageTree.page = <<>> =>
                  /\ requests[r].pc = "done"
                  /\ requests[r].outcome = "notFound"
                  /\ requests[r].loadCalls = 0
            /\ pageTree.page # <<>> =>
                  /\ requests[r].page[1].slugs = <<>>
                  /\ (/\ ~requests[r].page[1].data.load
                      /\ requests[r].page[1].data.body \notin {Undefined, Null, ""})
                     => /\ requests[r].pc = "done"
                        /\ requests[r].outcome = "rendered"
                        /\ requests[r].rendered.body = requests[r].page[1].data.body
                        /\ requests[r].loadCalls = 0

C25_Witness ==
    \E r, q \in DOMAIN requests :
        /\ pageTree = IndexTree
        /\ requests[r].params.slug = <<>>
        /\ requests[r].outcome = "rendered"
        /\ requests[r].rendered.title = "Docs"
        /\ requests[q].params.slug = << <<>> >>
        /\ requests[q].page = requests[r].page
        /\ requests[q].outcome = "rendered"

\* a request keeps the outcome it has reached
OutcomeKept ==
    \A r \in 1..MaxReq :
        requests[r].outcome # "none" =>
            /\ requests'[r].outcome = requests[r].outcome
            /\ requests'[r].pc = "done"

\* C26 as stated: with load() completing, every request that was made ends
\* in one outcome, the rendered page or not-found, and keeps it.
C26_EndsRenderedOrNotFound ==
    /\ [](\A r \in 1..MaxReq :
            requests[r].pc = "done" =>
                requests[r].outcome \in {"rendered", "notFound"})
    /\ \A r \in 1..MaxReq :
          (requests[r].pc = "awaitParams")
              ~> (/\ requests[r].pc = "done"
                  /\ requests[r].outcome \in {"rendered", "notFound"})
    /\ [][OutcomeKept]_vars

\* C26, what holds: with load() completing, every request that was made
\* ends in one outcome and keeps it; the outcome is the rendered page,
\* not-found, or the error that leaves Page when load() rejects or gives no
\* object.
C26_EveryRequestSettles ==
    /\ [](\A r \in 1..MaxReq :
            requests[r].pc = "done" =>
                requests[r].outcome \in {"rendered", "notFound", "error"})
    /\ \A r \in 1..MaxReq :
          (requests[r].pc = "awaitParams")
              ~> (/\ requests[r].pc = "done"
                  /\ requests[r].outcome \in {"rendered", "notFound", "error"})
    /\ [][OutcomeKept]_vars

\* no url occurs twice in the list
DistinctUrls(list) ==
    \A i, j \in DOMAIN list : list[i].url = list[j].url => i = j

\* the entries of the nav list with the given url
EntriesAt(url) == {footerList[k] : k \in {j \in DOMAIN footerList : footerList[j].url = url}}

\* the remembered evaluation was made at entry e of the present list and
\* the present one at entry f
RememberedAt(e, f) ==
    /\ remembered.set
    /\ footer.mounted
    /\ remembered.list = footerList
    /\ e \in EntriesAt(remembered.path)
    /\ f \in EntriesAt(pathname)

\* C27: in a nav list of pairwise distinct urls, when the evaluation at
\* entry e gave next = f, the evaluation at f gives previous = e, and when
\* the evaluation at e gave previous = d, the evaluation at d gives next = e.
C27_PreviousNextInverse ==
    DistinctUrls(footerList) =>
        \A e, f \in Items :
            RememberedAt(e, f) =>
                /\ remembered.next = <<f>> => footer.previous = <<e>>
                /\ remembered.previous = <<f>> => footer.next = <<e>>

C27_Witness ==
    /\ DistinctUrls(footerList)
    /\ Len(footerList) = 3
    /\ \E e, f \in Items :
          /\ RememberedAt(e, f)
          /\ remembered.next = <<f>>
          /\ footer.previous = <<e>>
          /\ footer.next # <<>>

\* with a url that occurs twice the two are not inverse: the evaluation at
\* e gave next = f, and the evaluation at the url of f does not give e back
C27_DuplicateUrlsBreakInverse ==
    /\ ~DistinctUrls(footerList)
    /\ \E e, f \in Items :
          /\ RememberedAt(e, f)
          /\ remembered.next = <<f>>
          /\ footer.previous # <<e>>

\* the first position (1-based) of the list that holds the url, 0 when none
FirstPositionOf(list, url) ==
    LET hits == {k \in DOMAIN list : list[k].url = url}
    IN IF hits = {} THEN 0 ELSE CHOOSE k \in hits : \A j \in hits : k <= j

\* the positions that hold a url which an earlier position holds too
RepeatPositions == {j \in DOMAIN footerList :
                       \E i \in 1..(j - 1) : footerList[i].url = footerList[j].url}

\* in a list of distinct urls a change of page goes one position forward
C28_Step ==
    (DistinctUrls(footerList) /\ footer.mounted /\ pathname' # pathname) =>
        FirstPositionOf(footerList', pathname')
            = FirstPositionOf(footerList, pathname) + 1

\* the reader is never at or past a position that repeats a url, and so
\* always has a next link to follow when some url is repeated
C28_BeforeRepeat ==
    footer.mounted =>
        /\ \A j \in RepeatPositions : FirstPositionOf(footerList, pathname) < j
        /\ RepeatPositions # {} => footer.next # <<>>

\* the reader has arrived at the last entry, which has no next
C28_AtLast ==
    /\ footer.mounted
    /\ pathname = footerList[Len(footerList)].url
    /\ footer.next = <<>>

\* C28: a reader who starts at the first entry and keeps following next
\* goes, in a list of distinct urls, one position forward at a time, comes
\* to every entry and stays at the last one, which has no next; when a url
\* is repeated the reader goes round without end and never comes to the
\* repeating position or to one behind it.
C28_FollowingNext ==
    /\ [][C28_Step]_vars
    /\ []C28_BeforeRepeat
    /\ \A k \in 1..MaxNav :
          (DistinctUrls(footerList) /\ k <= Len(footerList))
              => <>(footer.mounted /\ FirstPositionOf(footerList, pathname) = k)
    /\ DistinctUrls(footerList) => <>[]C28_AtLast

C28_Witness ==
    /\ DistinctUrls(footerList)
    /\ Len(footerList) = 3
    /\ footer.mounted
    /\ pathname = footerList[3].url
    /\ pathname # footerList[1].url
    /\ footer.previous = <<footerList[2]>>
    /\ footer.next = <<>>

\* a reader of a list with a repeated url about to go round: on the second
\* page, with a next link that leads back to the first page
C28_NextLeadsBack ==
    /\ RepeatPositions = {3}
    /\ footer.mounted
    /\ pathname = footerList[2].url
    /\ footer.next = <<footerList[3]>>
    /\ FirstPositionOf(footerList, footer.next[1].url) = 1

\* the neighbors of the present pathname in the present nav list: the
\* entries around the first position whose url is the pathname
NeighborsNow ==
    IF ExactPositions = {} THEN [previous |-> <<>>, next |-> <<>>]
    ELSE [previous |-> EntryBefore(FirstExact), next |-> EntryAfter(FirstExact)]

\* C29: whatever pathnames and nav lists came before, the footer shows the
\* neighbors of the present pathname in the present nav list, the memoized
\* pair is the one computed for exactly these two inputs, and the links are
\* those of that pair.
C29_ShowsPresentNeighbors ==
    footer.mounted =>
        /\ memo.set
        /\ memo.deps = <<footerList, pathname>>
        /\ memo.val.previous = NeighborsNow.previous
        /\ memo.val.next = NeighborsNow.next
        /\ footer.previous = NeighborsNow.previous
        /\ footer.next = NeighborsNow.next
        /\ footer.links = FooterLinks(NeighborsNow.previous, NeighborsNow.next)

C29_Witness ==
    /\ footer.mounted
    /\ remembered.set
    /\ remembered.others
    /\ remembered.path # pathname
    /\ remembered.list # footerList
    /\ remembered.previous # <<>>
    /\ footer.previous # <<>>
    /\ remembered.previous # footer.previous
    /\ footer.previous = NeighborsNow.previous

\* the positions of the nav list that hold the entry
PositionsOf(entry) == {k \in DOMAIN footerList : footerList[k] = entry[1]}

\* C30: when the pathname matches an entry, previous and next are taken
\* from other positions than the matched one and from positions different
\* from each other; with pairwise distinct urls no link of the footer but
\* Home can lead to the pathname being displayed, and Home leads to "/".
C30_NeverTheCurrentEntry ==
    (footer.mounted /\ ExactPositions # {}) =>
        /\ footer.previous # <<>> => FirstExact \notin PositionsOf(footer.previous)
        /\ footer.next # <<>> => FirstExact \notin PositionsOf(footer.next)
        /\ (footer.previous # <<>> /\ footer.next # <<>>) =>
              PositionsOf(footer.previous) \cap PositionsOf(footer.next) = {}
        /\ DistinctUrls(footerList) =>
              \A k \in DOMAIN footer.links :
                  footer.links[k].href = pathname => footer.links[k] = HomeLink

C30_Witness ==
    /\ footer.mounted
    /\ DistinctUrls(footerList)
    /\ ExactPositions = {2}
    /\ footer.previous # <<>>
    /\ footer.next # <<>>
    /\ PositionsOf(footer.previous) = {1}
    /\ PositionsOf(footer.next) = {3}
    /\ \A k \in DOMAIN footer.links : footer.links[k].href # pathname

\* with a repeated url the footer can link to the page it is shown on
C30_LinksToItselfWithDuplicates ==
    /\ footer.mounted
    /\ ~DistinctUrls(footerList)
    /\ footer.next # <<>>
    /\ footer.next[1].url = pathname

====
